---- MODULE Spec2Model ----
(***************************************************************************)
(* Server-sent events codec of renderer/sse.go: SSEventEncode writes one   *)
(* SSEvent to a writer through a bufio.Writer, SSEventDecode parses a      *)
(* fully read byte stream into a list of SSEvent.                          *)
(*                                                                         *)
(* A byte is its value 0..255, a []byte or string is a sequence of bytes.  *)
(* An io.Reader holding a payload is [isNil, bytes]; isNil is the nil      *)
(* interface value of an SSEvent whose Data was never assigned.            *)
(***************************************************************************)
EXTENDS Integers, Sequences, FiniteSets, TLC

(***************************************************************************)
(* Bytes the source names.                                                 *)
(***************************************************************************)
LF == 10
CR == 13
NUL == 0
Space == 32
Colon == 58
Plus == 43
Minus == 45
Zero == 48
Nine == 57
BOM == <<239, 187, 191>>

\* field names and the default event type, as bytes
FieldEvent == <<101, 118, 101, 110, 116>>
FieldID == <<105, 100>>
FieldRetry == <<114, 101, 116, 114, 121>>
FieldData == <<100, 97, 116, 97>>
Message == <<109, 101, 115, 115, 97, 103, 101>>

(***************************************************************************)
(* Bounds of the model.                                                    *)
(***************************************************************************)
\* width in bits of Go's int and uint (32 or 64 in a build), scaled down
IntSize == 5
\* capacity of the bufio.Writer (4096 in the library), scaled down
BufSize == 6
\* events a caller encodes into one sink
MaxEvents == 2
\* lines of a decoder input
MaxLines == 3
\* sink writes that succeed before a failing sink fails
MaxOkWrites == 1

RECURSIVE Pow2(_)
Pow2(n) == IF n = 0 THEN 1 ELSE 2 * Pow2(n - 1)
MaxInt == Pow2(IntSize - 1) - 1

(***************************************************************************)
(* The bytes package, as the decoder uses it.                              *)
(***************************************************************************)
HasPrefix(s, p) ==
    /\ Len(s) >= Len(p)
    /\ SubSeq(s, 1, Len(p)) = p

\* TrimPrefix that goes on as long as the prefix is there
RECURSIVE TrimPrefixRepeated(_, _)
TrimPrefixRepeated(s, p) ==
    IF Len(p) > 0 /\ HasPrefix(s, p)
    THEN TrimPrefixRepeated(SubSeq(s, Len(p) + 1, Len(s)), p)
    ELSE s

TrimPrefix(s, p) ==
    IF HasPrefix(s, p) THEN SubSeq(s, Len(p) + 1, Len(s)) ELSE s

\* non-overlapping replacement, scanning from the left
RECURSIVE ReplaceAll(_, _, _)
ReplaceAll(s, old, new) ==
    IF Len(s) = 0 THEN <<>>
    ELSE IF HasPrefix(s, old)
         THEN new \o ReplaceAll(SubSeq(s, Len(old) + 1, Len(s)), old, new)
         ELSE <<Head(s)>> \o ReplaceAll(Tail(s), old, new)

\* index of the first byte c in s, 0 when there is none (Go: -1)
RECURSIVE IndexFrom(_, _, _)
IndexFrom(s, c, i) ==
    IF i > Len(s) THEN 0
    ELSE IF s[i] = c THEN i
    ELSE IndexFrom(s, c, i + 1)

IndexByte(s, c) == IndexFrom(s, c, 1)

Contains(s, c) == IndexByte(s, c) # 0

\* bytes.Split on a one-byte separator: n separators give n + 1 pieces
RECURSIVE Split(_, _)
Split(s, sep) ==
    LET i == IndexByte(s, sep)
    IN  IF i = 0 THEN <<s>>
        ELSE <<SubSeq(s, 1, i - 1)>> \o Split(SubSeq(s, i + 1, Len(s)), sep)

RECURSIVE Join(_, _)
Join(ss, sep) ==
    IF Len(ss) = 0 THEN <<>>
    ELSE IF Len(ss) = 1 THEN ss[1]
    ELSE ss[1] \o sep \o Join(Tail(ss), sep)

(***************************************************************************)
(* strconv.Atoi and the %d verb.                                           *)
(***************************************************************************)
IsDigit(c) == c >= Zero /\ c <= Nine

AllDigits(s) == \A i \in 1..Len(s) : IsDigit(s[i])

\* value of a digit string, saturating just above MaxInt + 1
RECURSIVE DigitsValue(_, _)
DigitsValue(s, acc) ==
    IF Len(s) = 0 THEN acc
    ELSE LET n == acc * 10 + (Head(s) - Zero)
         IN  DigitsValue(Tail(s), IF n > MaxInt + 1 THEN MaxInt + 2 ELSE n)

\* strconv.Atoi: an optional sign, then one or more digits, in the range of int
Atoi(s) ==
    LET signed == Len(s) > 0 /\ (s[1] = Plus \/ s[1] = Minus)
        neg == Len(s) > 0 /\ s[1] = Minus
        digits == IF signed THEN Tail(s) ELSE s
        mag == DigitsValue(digits, 0)
    IN  IF Len(digits) = 0 \/ ~AllDigits(digits)
        THEN [ok |-> FALSE, val |-> 0]
        ELSE IF neg
             THEN IF mag > MaxInt + 1
                  THEN [ok |-> FALSE, val |-> 0 - (MaxInt + 1)]
                  ELSE [ok |-> TRUE, val |-> 0 - mag]
             ELSE IF mag > MaxInt
                  THEN [ok |-> FALSE, val |-> MaxInt]
                  ELSE [ok |-> TRUE, val |-> mag]

\* fmt's %d of an unsigned value
RECURSIVE FormatUint(_)
FormatUint(n) ==
    IF n < 10 THEN <<Zero + n>>
    ELSE Append(FormatUint(n \div 10), Zero + (n % 10))

(***************************************************************************)
(* SSEvent.                                                                *)
(***************************************************************************)
NilReader == [isNil |-> TRUE, bytes |-> <<>>]
NewReader(b) == [isNil |-> FALSE, bytes |-> b]

SSEvent(ev, data, id, retry) ==
    [Event |-> ev, Data |-> data, ID |-> id, Retry |-> retry]

ZeroEvent == SSEvent(<<>>, NilReader, <<>>, 0)

(***************************************************************************)
(* SSEventDecode.                                                          *)
(***************************************************************************)
\* SplitLines with CR made LF before CRLF is
SplitLinesCRFirst(raw) ==
    LET r1 == TrimPrefix(raw, BOM)
        r2 == ReplaceAll(r1, <<CR>>, <<LF>>)
        r3 == ReplaceAll(r2, <<CR, LF>>, <<LF>>)
    IN  Split(r3, LF)

\* BOM stripped once, CRLF then CR made LF, split at LF
SplitLines(raw) ==
    LET r1 == TrimPrefix(raw, BOM)
        r2 == ReplaceAll(r1, <<CR, LF>>, <<LF>>)
        r3 == ReplaceAll(r2, <<CR>>, <<LF>>)
    IN  Split(r3, LF)

\* SplitField without the removal of the leading space
SplitFieldKeepsSpace(line) ==
    LET index == IndexByte(line, Colon)
    IN  IF index # 0
        THEN [field |-> SubSeq(line, 1, index - 1),
              value |-> SubSeq(line, index + 1, Len(line))]
        ELSE [field |-> line, value |-> <<>>]

\* SplitField with every leading space of the value removed
SplitFieldTrimsAll(line) ==
    LET index == IndexByte(line, Colon)
        rest == SubSeq(line, index + 1, Len(line))
        n == CHOOSE k \in 0..Len(rest) :
                 /\ \A i \in 1..k : rest[i] = Space
                 /\ k = Len(rest) \/ rest[k + 1] # Space
    IN  IF index # 0
        THEN [field |-> SubSeq(line, 1, index - 1),
              value |-> SubSeq(rest, n + 1, Len(rest))]
        ELSE [field |-> line, value |-> <<>>]

\* a line cut at its first colon, one leading space of the value removed
SplitField(line) ==
    LET index == IndexByte(line, Colon)
        rest == SubSeq(line, index + 1, Len(line))
    IN  IF index # 0
        THEN [field |-> SubSeq(line, 1, index - 1),
              value |-> IF Len(rest) > 0 /\ rest[1] = Space THEN Tail(rest) ELSE rest]
        ELSE [field |-> line, value |-> <<>>]

\* the loop's state: the in-progress event, its data lines, the events so far
LoopInit == [event |-> ZeroEvent, dataLines |-> <<>>, events |-> <<>>]

\* SetID that clears the id when the value holds a NUL
SetIDClears(st, value) ==
    IF ~Contains(value, NUL)
    THEN [st EXCEPT !.event.ID = value]
    ELSE [st EXCEPT !.event.ID = <<>>]

SetID(st, value) ==
    IF ~Contains(value, NUL)
    THEN [st EXCEPT !.event.ID = value]
    ELSE st

SetRetry(st, value) ==
    LET retry == Atoi(value)
    IN  IF retry.ok /\ retry.val >= 0
        THEN [st EXCEPT !.event.Retry = retry.val]
        ELSE st

\* ProcessField that takes the field name in either case
ProcessFieldAnyCase(st, field, value) ==
    LET name == [i \in 1..Len(field) |->
                    IF field[i] \in 65..90 THEN field[i] + 32 ELSE field[i]]
    IN  IF name = FieldEvent THEN [st EXCEPT !.event.Event = value]
        ELSE IF name = FieldID THEN SetID(st, value)
        ELSE IF name = FieldRetry THEN SetRetry(st, value)
        ELSE IF name = FieldData THEN [st EXCEPT !.dataLines = Append(@, value)]
        ELSE st

\* the switch on the field name
ProcessField(st, field, value) ==
    IF field = FieldEvent THEN [st EXCEPT !.event.Event = value]
    ELSE IF field = FieldID THEN SetID(st, value)
    ELSE IF field = FieldRetry THEN SetRetry(st, value)
    ELSE IF field = FieldData THEN [st EXCEPT !.dataLines = Append(@, value)]
    ELSE st

\* SkipsBlank of a loop without the check
SkipsNothing(st) == FALSE

\* whether an empty line is passed over
SkipsBlank(st) == Len(st.dataLines) = 0 /\ st.event.Event = <<>>

\* Completed without the default event type
CompletedNoDefault(st) ==
    IF Len(st.dataLines) > 0
    THEN [st.event EXCEPT !.Data = NewReader(Join(st.dataLines, <<LF>>))]
    ELSE st.event

\* the event an empty line completes
Completed(st) ==
    LET e1 == IF Len(st.dataLines) > 0
              THEN [st.event EXCEPT !.Data = NewReader(Join(st.dataLines, <<LF>>))]
              ELSE st.event
    IN  IF e1.Event = <<>> THEN [e1 EXCEPT !.Event = Message] ELSE e1

\* EndOfEvent that starts afresh at an empty line it passes over
EndOfEventResetsOnSkip(st) ==
    IF SkipsBlank(st)
    THEN [event |-> ZeroEvent, dataLines |-> <<>>, events |-> st.events]
    ELSE [event |-> ZeroEvent, dataLines |-> <<>>,
          events |-> Append(st.events, Completed(st))]

\* EndOfEvent without the reset of the data lines
EndOfEventKeepsData(st) ==
    IF SkipsBlank(st) THEN st
    ELSE [event |-> ZeroEvent, dataLines |-> st.dataLines,
          events |-> Append(st.events, Completed(st))]

\* EndOfEvent without the reset of the in-progress event
EndOfEventKeepsEvent(st) ==
    IF SkipsBlank(st) THEN st
    ELSE [event |-> st.event, dataLines |-> <<>>,
          events |-> Append(st.events, Completed(st))]

EndOfEvent(st) ==
    IF SkipsBlank(st) THEN st
    ELSE [event |-> ZeroEvent, dataLines |-> <<>>,
          events |-> Append(st.events, Completed(st))]

\* ProcessLine where a comment line ends the event as an empty line does
ProcessLineCommentEnds(st, line) ==
    IF Len(line) = 0 \/ HasPrefix(line, <<Colon>>) THEN EndOfEvent(st)
    ELSE LET fv == SplitField(line)
         IN  ProcessField(st, fv.field, fv.value)

\* one iteration of the loop over the lines
ProcessLine(st, line) ==
    IF Len(line) = 0 THEN EndOfEvent(st)
    ELSE IF HasPrefix(line, <<Colon>>) THEN st
    ELSE LET fv == SplitField(line)
         IN  ProcessField(st, fv.field, fv.value)

RECURSIVE ProcessLines(_, _)
ProcessLines(st, ls) ==
    IF Len(ls) = 0 THEN st
    ELSE ProcessLines(ProcessLine(st, Head(ls)), Tail(ls))

\* the events SSEventDecode returns for bytes that were read without error
DecodeBytes(raw) == ProcessLines(LoopInit, SplitLines(raw)).events

(***************************************************************************)
(* The sink and the bufio.Writer SSEventEncode wraps around it.            *)
(* A sink that fails does so after `left` successful writes and stays      *)
(* failing; `failed` records that a write of the current SSEventEncode     *)
(* call failed, `late` a write attempted after that failed one.            *)
(***************************************************************************)
GoodSink == [bytes |-> <<>>, fails |-> FALSE, left |-> 0, failed |-> FALSE, late |-> FALSE]
BadSink(k) == [bytes |-> <<>>, fails |-> TRUE, left |-> k, failed |-> FALSE, late |-> FALSE]

SinkOk(s) == ~(s.fails /\ s.left = 0)

SinkWrite(s, p) ==
    IF SinkOk(s)
    THEN [s EXCEPT !.bytes = @ \o p, !.left = IF s.fails THEN @ - 1 ELSE @]
    ELSE [s EXCEPT !.failed = TRUE, !.late = s.failed]

\* the sink as a call of SSEventEncode finds it
Fresh(s) == [s EXCEPT !.failed = FALSE, !.late = FALSE]

NewWriter(s) == [buf |-> <<>>, err |-> FALSE, sink |-> s]

Available(w) == BufSize - Len(w.buf)

\* Flush without the check of the error of an earlier write
FlushForgetsErr(w) ==
    IF Len(w.buf) = 0 THEN w
    ELSE [buf |-> IF SinkOk(w.sink) THEN <<>> ELSE w.buf,
          err |-> ~SinkOk(w.sink),
          sink |-> SinkWrite(w.sink, w.buf)]

Flush(w) ==
    IF w.err \/ Len(w.buf) = 0 THEN w
    ELSE [buf |-> IF SinkOk(w.sink) THEN <<>> ELSE w.buf,
          err |-> ~SinkOk(w.sink),
          sink |-> SinkWrite(w.sink, w.buf)]

\* bufio.Writer.Write and WriteString; the error it returns is the err it leaves
RECURSIVE Write(_, _)
Write(w, p) ==
    IF Len(p) > Available(w) /\ ~w.err
    THEN IF Len(w.buf) = 0
         THEN [w EXCEPT !.err = ~SinkOk(w.sink), !.sink = SinkWrite(w.sink, p)]
         ELSE Write(Flush([w EXCEPT !.buf = @ \o SubSeq(p, 1, Available(w))]),
                    SubSeq(p, Available(w) + 1, Len(p)))
    ELSE IF w.err THEN w
    ELSE [w EXCEPT !.buf = @ \o p]

(***************************************************************************)
(* SSEventEncode.                                                          *)
(***************************************************************************)
EventLine(e) == FieldEvent \o <<Colon, Space>> \o e.Event \o <<LF>>
IDLine(e) == FieldID \o <<Colon, Space>> \o e.ID \o <<LF>>
RetryLine(e) == FieldRetry \o <<Colon, Space>> \o FormatUint(e.Retry) \o <<LF>>
DataPrefix == FieldData \o <<Colon, Space>>
EventEnd == <<LF, LF>>

WriteEvent(w, e) == IF Len(e.Event) > 0 THEN Write(w, EventLine(e)) ELSE w
WriteID(w, e) == IF Len(e.ID) > 0 THEN Write(w, IDLine(e)) ELSE w
WriteRetry(w, e) == IF e.Retry > 0 THEN Write(w, RetryLine(e)) ELSE w
\* io.Copy of the payload, after the unchecked write of the data prefix
WriteData(w, e) == Write(Write(w, DataPrefix), e.Data.bytes)
\* WriteEnd without the final Flush
WriteEndNoFlush(w) == Write(w, EventEnd)

WriteEnd(w) == Flush(Write(w, EventEnd))

\* the writer as the call leaves it; err is the error returned
Encode(s, e) ==
    LET w1 == WriteEvent(NewWriter(s), e)
        w2 == WriteID(w1, e)
        w3 == WriteRetry(w2, e)
        w4 == WriteData(w3, e)
    IN  IF w1.err THEN w1
        ELSE IF w2.err THEN w2
        ELSE IF w3.err THEN w3
        ELSE IF w4.err THEN w4
        ELSE WriteEnd(w4)

(***************************************************************************)
(* What the callers pass in.                                               *)
(***************************************************************************)
\* events a caller encodes: every combination of present and absent fields ...
\* "t"
Names == {<<>>, <<116>>}
\* " 5"
IDs == {<<>>, <<Space, 53>>}
Retries == {0, 7}
\* " x", "x\ny"
Payloads == {<<>>, <<Space, 120>>, <<120, LF, 121>>}

PlainEvents == {SSEvent(n, NewReader(p), i, r) :
                  n \in Names, p \in Payloads, i \in IDs, r \in Retries}

\* ... and events with a line break in the name or the id, a NUL in the id,
\* a retry above the largest int, a CR in the payload
OddEvents ==
    { SSEvent(<<97, LF, 98>>, NewReader(<<120>>), <<53>>, 7),
      SSEvent(<<116>>, NewReader(<<120>>), <<53, CR>>, 7),
      SSEvent(<<116>>, NewReader(<<120>>), <<97, NUL>>, 7),
      SSEvent(<<116>>, NewReader(<<120>>), <<53>>, MaxInt + 1),
      SSEvent(<<116>>, NewReader(<<120, CR, 122>>), <<53>>, 7) }

EncEvents == PlainEvents \cup OddEvents

Sinks == {GoodSink} \cup {BadSink(k) : k \in 0..MaxOkWrites}

\* lines of a decoder input
LineTokens ==
    { <<>>,                                          \* blank line
      <<Colon, 99>>,                                 \* ":c"
      FieldData \o <<Colon, Space, 120>>,            \* "data: x"
      FieldData \o <<Colon, Space, Space, 121, Colon, 122, Space>>, \* "data:  y:z "
      FieldEvent \o <<Colon, Space, 116>>,           \* "event: t"
      FieldEvent,                                    \* "event"
      FieldID \o <<Colon, Space, 53>>,               \* "id: 5"
      FieldID \o <<Colon, Space, 97, NUL>>,          \* "id: a\0"
      FieldRetry \o <<Colon, Space, 55>>,            \* "retry: 7"
      FieldRetry \o <<Colon, Space, Plus, 53>>,      \* "retry: +5"
      FieldRetry \o <<Colon, Space, 55, 120>>,       \* "retry: 7x"
      <<102, 111, 111, Colon, Space, 49>>,           \* "foo: 1"
      BOM \o FieldData \o <<Colon, Space, 120>> }    \* BOM "data: x"

RECURSIVE SeqsUpTo(_, _)
SeqsUpTo(S, n) ==
    IF n = 0 THEN {<<>>}
    ELSE LET shorter == SeqsUpTo(S, n - 1)
         IN  shorter \cup {Append(q, x) : q \in {r \in shorter : Len(r) = n - 1}, x \in S}

\* the lines that make events, for the properties that compare two inputs
CoreTokens ==
    { <<>>,                                          \* blank line
      <<Colon, 99>>,                                 \* ":c"
      FieldData \o <<Colon, Space, 120>>,            \* "data: x"
      FieldEvent \o <<Colon, Space, 116>>,           \* "event: t"
      FieldID \o <<Colon, Space, 53>>,               \* "id: 5"
      FieldRetry \o <<Colon, Space, 55>>,            \* "retry: 7"
      BOM \o FieldData \o <<Colon, Space, 120>> }    \* BOM "data: x"

\* every line followed by LF
RECURSIVE Terminated(_)
Terminated(ls) ==
    IF Len(ls) = 0 THEN <<>>
    ELSE Head(ls) \o <<LF>> \o Terminated(Tail(ls))

\* up to MaxLines lines, LF after each, the last one with or without it
InputsFrom(tokens) ==
    LET lss == SeqsUpTo(tokens, MaxLines)
    IN  {Join(ls, <<LF>>) : ls \in lss} \cup {Terminated(ls) : ls \in lss}

Inputs == InputsFrom(LineTokens)

CoreInputs == InputsFrom(CoreTokens)

(***************************************************************************)
(* State.                                                                  *)
(***************************************************************************)
VARIABLES
    sink,       \* the writer the caller passes to SSEventEncode
    calls,      \* the SSEventEncode calls made: the event and the error returned
    input,      \* the bytes behind the reader passed to SSEventDecode
    pc,         \* position in SSEventDecode
    raw, lines, li,             \* the bytes read, their lines, the loop index
    event, dataLines, events,   \* the locals of the loop
    err         \* the error SSEventDecode returns

vars == <<sink, calls, input, pc, raw, lines, li, event, dataLines, events, err>>

DecodeLocals ==
    /\ raw = <<>> /\ lines = <<>> /\ li = 0
    /\ event = ZeroEvent /\ dataLines = <<>> /\ events = <<>>
    /\ err = FALSE

\* a caller with a sink, about to encode events into it and decode them back
Init ==
    /\ sink \in Sinks
    /\ calls = <<>>
    /\ input = <<>>
    /\ pc = "idle"
    /\ DecodeLocals

\* a caller about to decode a byte stream
InitDecode ==
    /\ sink = GoodSink
    /\ calls = <<>>
    /\ input \in Inputs
    /\ pc = "read"
    /\ DecodeLocals

\* a caller about to decode a byte stream made of the core lines
InitCore ==
    /\ sink = GoodSink
    /\ calls = <<>>
    /\ input \in CoreInputs
    /\ pc = "read"
    /\ DecodeLocals

(***************************************************************************)
(* Actions.                                                                *)
(***************************************************************************)
EncodeCall(e) ==
    /\ pc = "idle"
    /\ Len(calls) < MaxEvents
    /\ LET w == Encode(Fresh(sink), e)
       IN  /\ sink' = w.sink
           /\ calls' = Append(calls, [event |-> e, err |-> w.err])
    /\ UNCHANGED <<input, pc, raw, lines, li, event, dataLines, events, err>>

\* the caller hands the sink's bytes to SSEventDecode
DecodeCall ==
    /\ pc = "idle"
    /\ input' = sink.bytes
    /\ pc' = "read"
    /\ UNCHANGED <<sink, calls, raw, lines, li, event, dataLines, events, err>>

\* DecodeReadAll that goes on to parse after a failed read
DecodeReadAllGoesOn ==
    /\ pc = "read"
    /\ \E ok \in BOOLEAN :
         /\ raw' = input /\ pc' = "split" /\ err' = ~ok
    /\ UNCHANGED <<sink, calls, input, lines, li, event, dataLines, events>>

\* io.ReadAll, which the reader may fail
DecodeReadAll ==
    /\ pc = "read"
    /\ \E ok \in BOOLEAN :
         IF ok
         THEN raw' = input /\ pc' = "split" /\ err' = FALSE
         ELSE raw' = raw /\ pc' = "done" /\ err' = TRUE
    /\ UNCHANGED <<sink, calls, input, lines, li, event, dataLines, events>>

DecodeSplit ==
    /\ pc = "split"
    /\ lines' = SplitLines(raw)
    /\ li' = 1
    /\ pc' = "loop"
    /\ UNCHANGED <<sink, calls, input, raw, event, dataLines, events, err>>

DecodeLine ==
    /\ pc = "loop"
    /\ li <= Len(lines)
    /\ LET st == ProcessLine([event |-> event, dataLines |-> dataLines,
                              events |-> events], lines[li])
       IN  /\ event' = st.event
           /\ dataLines' = st.dataLines
           /\ events' = st.events
    /\ li' = li + 1
    /\ UNCHANGED <<sink, calls, input, pc, raw, lines, err>>

\* DecodeReturn that completes the event in progress at the end of the input
DecodeReturnFlushes ==
    /\ pc = "loop"
    /\ li > Len(lines)
    /\ pc' = "done"
    /\ LET st == EndOfEvent([event |-> event, dataLines |-> dataLines,
                             events |-> events])
       IN  /\ event' = st.event
           /\ dataLines' = st.dataLines
           /\ events' = st.events
    /\ UNCHANGED <<sink, calls, input, raw, lines, li, err>>

\* return events, nil
DecodeReturn ==
    /\ pc = "loop"
    /\ li > Len(lines)
    /\ pc' = "done"
    /\ UNCHANGED <<sink, calls, input, raw, lines, li, event, dataLines, events, err>>

Decode == DecodeReadAll \/ DecodeSplit \/ DecodeLine \/ DecodeReturn

Next == (\E e \in EncEvents : EncodeCall(e)) \/ DecodeCall \/ Decode

Spec == Init /\ [][Next]_vars

NextDecode == Decode

SpecDecode == InitDecode /\ [][NextDecode]_vars

SpecCore == InitCore /\ [][NextDecode]_vars

(***************************************************************************)
(* Properties.                                                             *)
(***************************************************************************)
HasLineBreak(s) == Contains(s, LF) \/ Contains(s, CR)

\* one event was encoded without error and the sink's bytes were decoded
DecodedOne == pc = "done" /\ ~err /\ Len(calls) = 1 /\ ~calls[1].err

\* every call so far returned nil and the sink's bytes were decoded
DecodedAll == pc = "done" /\ ~err /\ \A i \in 1..Len(calls) : ~calls[i].err

NamedEvent(e) ==
    /\ Len(e.Event) > 0 /\ Len(e.ID) > 0 /\ e.Retry > 0
    /\ ~Contains(e.Data.bytes, LF)

\* nothing in the event that the wire format cannot carry
CarriedEvent(e) ==
    /\ ~HasLineBreak(e.Event) /\ ~HasLineBreak(e.ID) /\ ~Contains(e.ID, NUL)
    /\ ~HasLineBreak(e.Data.bytes)
    /\ e.Retry <= MaxInt

\* C1 as stated: an event with a name, an id, a retry > 0 and a payload without
\* LF decodes, after encoding, to exactly that one event.
RoundTripAsClaimed ==
    (DecodedOne /\ NamedEvent(calls[1].event)) => events = <<calls[1].event>>

\* C1, amended: an event with a non-empty name, a non-empty id, a retry > 0 that
\* fits an int, no CR or LF in name, id and payload and no NUL in the id
\* decodes, after encoding, to exactly one event equal to it in event name, id,
\* retry and payload.
RoundTrip ==
    (DecodedOne /\ NamedEvent(calls[1].event) /\ CarriedEvent(calls[1].event))
        => events = <<calls[1].event>>

RoundTripWitness ==
    /\ DecodedOne
    /\ NamedEvent(calls[1].event) /\ CarriedEvent(calls[1].event)
    /\ Len(calls[1].event.Data.bytes) > 0
    /\ Len(events) = 1

RECURSIVE DecimalValue(_)
DecimalValue(s) ==
    IF Len(s) = 0 THEN 0
    ELSE DecimalValue(SubSeq(s, 1, Len(s) - 1)) * 10 + (s[Len(s)] - Zero)

\* s is n in decimal: digits only, no leading zero
IsDecimalOf(s, n) ==
    /\ Len(s) > 0 /\ AllDigits(s)
    /\ (Len(s) = 1 \/ s[1] # Zero)
    /\ DecimalValue(s) = n

\* the bytes `after` are the bytes `before` followed by the encoding of e
Written(before, after, e) ==
    LET head == (IF Len(e.Event) > 0
                 THEN <<101, 118, 101, 110, 116, Colon, Space>> \o e.Event \o <<LF>>
                 ELSE <<>>)
                \o (IF Len(e.ID) > 0
                    THEN <<105, 100, Colon, Space>> \o e.ID \o <<LF>>
                    ELSE <<>>)
        tail == <<100, 97, 116, 97, Colon, Space>> \o e.Data.bytes \o <<LF, LF>>
        delta == SubSeq(after, Len(before) + 1, Len(after))
        mid == SubSeq(delta, Len(head) + 1, Len(delta) - Len(tail))
    IN  /\ Len(after) >= Len(before) + Len(head) + Len(tail)
        /\ SubSeq(after, 1, Len(before)) = before
        /\ SubSeq(delta, 1, Len(head)) = head
        /\ SubSeq(delta, Len(delta) - Len(tail) + 1, Len(delta)) = tail
        /\ IF e.Retry > 0
           THEN /\ Len(mid) > 8
                /\ SubSeq(mid, 1, 7) = <<114, 101, 116, 114, 121, Colon, Space>>
                /\ mid[Len(mid)] = LF
                /\ IsDecimalOf(SubSeq(mid, 8, Len(mid) - 1), e.Retry)
           ELSE mid = <<>>

\* C2: a call of SSEventEncode that returns nil has added to the sink, in this
\* order and nothing else: "event: <Event>\n" iff Event is non-empty,
\* "id: <ID>\n" iff ID is non-empty, "retry: <Retry>\n" in decimal iff Retry > 0,
\* "data: ", the payload bytes as they are, "\n\n"; all of it is in the sink
\* when the call returns.
EncodeWrites ==
    [][\A e \in EncEvents :
         calls' = Append(calls, [event |-> e, err |-> FALSE])
             => Written(sink.bytes, sink'.bytes, e)]_vars

EncodeWritesWitness ==
    /\ Len(calls) = 2
    /\ ~calls[1].err /\ ~calls[2].err
    /\ Len(calls[2].event.Event) > 0 /\ Len(calls[2].event.ID) > 0
    /\ calls[2].event.Retry > 0
    /\ Contains(calls[2].event.Data.bytes, LF)
    /\ calls[1].event.Event = <<>> /\ calls[1].event.ID = <<>>
    /\ calls[1].event.Retry = 0
    /\ Len(sink.bytes) > 0

\* C3 as stated: N events without LF in the payload, encoded into one sink,
\* decode to N events, the i-th with the event name and id of the i-th encoded.
StreamRoundTripAsClaimed ==
    (DecodedAll /\ \A i \in 1..Len(calls) : ~Contains(calls[i].event.Data.bytes, LF))
        => /\ Len(events) = Len(calls)
           /\ \A i \in 1..Len(calls) :
                /\ events[i].Event = calls[i].event.Event
                /\ events[i].ID = calls[i].event.ID

\* C3, amended: N events without CR or LF in name, id and payload and without
\* NUL in the id, encoded into one sink, decode to N events in the order
\* encoded, the i-th with the id of the i-th encoded event and with its event
\* name, or "message" where that name is empty.
StreamRoundTrip ==
    (DecodedAll /\ \A i \in 1..Len(calls) :
                      /\ ~HasLineBreak(calls[i].event.Event)
                      /\ ~HasLineBreak(calls[i].event.ID)
                      /\ ~Contains(calls[i].event.ID, NUL)
                      /\ ~HasLineBreak(calls[i].event.Data.bytes))
        => /\ Len(events) = Len(calls)
           /\ \A i \in 1..Len(calls) :
                /\ events[i].Event = IF calls[i].event.Event = <<>>
                                     THEN Message ELSE calls[i].event.Event
                /\ events[i].ID = calls[i].event.ID

StreamRoundTripWitness ==
    /\ DecodedAll
    /\ Len(calls) = 2 /\ Len(events) = 2
    /\ calls[1].event.Event # <<>> /\ calls[1].event.ID # <<>>
    /\ calls[2].event.Event = <<>> /\ calls[2].event.ID = <<>>
    /\ events[1].Event = calls[1].event.Event
    /\ events[2].Event = Message /\ events[2].ID = <<>>

(***************************************************************************)
(* Properties of SSEventDecode on its own.                                 *)
(***************************************************************************)
\* SSEventDecode has returned its events
Decoded == pc = "done" /\ ~err

\* the lines of the input as written, with LF after each but the last
Pieces == Split(input, LF)

Endings == {<<LF>>, <<CR, LF>>, <<CR>>}

\* ps[1] ts[1] ps[2] ts[2] ... ps[n + 1]
RECURSIVE WithEndings(_, _)
WithEndings(ps, ts) ==
    IF Len(ps) <= 1 THEN Join(ps, <<>>)
    ELSE Head(ps) \o Head(ts) \o WithEndings(Tail(ps), Tail(ts))

EndingChoices == [1..(Len(Pieces) - 1) -> Endings]

\* a CR that ends a line, directly before the LF that ends an empty line
MergesIntoCRLF(ts) ==
    \E i \in 1..(Len(ts) - 1) :
        ts[i] = <<CR>> /\ Pieces[i + 1] = <<>> /\ ts[i + 1] = <<LF>>

\* C4 as stated: each LF of the input replaced by any of CRLF, LF or CR, the
\* decoded events are those of the input as written.
LineEndingsAsClaimed ==
    Decoded => \A ts \in EndingChoices :
                   DecodeBytes(WithEndings(Pieces, ts)) = events

\* C4, amended: each LF of the input replaced by any of CRLF, LF or CR, the
\* decoded events are those of the input as written, unless a line end made CR
\* is directly followed by an empty line whose line end stays LF (the two then
\* read as one CRLF and the empty line is gone).
LineEndings ==
    Decoded => \A ts \in EndingChoices :
                   ~MergesIntoCRLF(ts)
                       => DecodeBytes(WithEndings(Pieces, ts)) = events

LineEndingsWitness ==
    /\ Decoded
    /\ Len(Pieces) = 4
    /\ Len(events) = 1
    /\ Contains(events[1].Data.bytes, LF)
    /\ \E ts \in EndingChoices :
          /\ ts[1] = <<CR, LF>> /\ ts[2] = <<CR>> /\ ts[3] = <<LF>>
          /\ ~MergesIntoCRLF(ts)

\* the step of the loop appends an event
Emits == pc = "loop" /\ Len(events') = Len(events) + 1

\* C5: every event SSEventDecode emits, one with no data line included, has a
\* readable payload equal to the data lines since the last boundary joined by
\* LF.
PayloadReadable ==
    [][Emits => events'[Len(events')].Data = NewReader(Join(dataLines, <<LF>>))]_vars

\* the loop is at a field line with this name
AtField(name) ==
    /\ pc = "loop" /\ li <= Len(lines)
    /\ Len(lines[li]) > 0
    /\ ~HasPrefix(lines[li], <<Colon>>)
    /\ SplitField(lines[li]).field = name

\* C6: a retry line whose value is not made of ASCII digits only leaves the
\* in-progress event as it is and fails nothing.
RetryOnlyDigits ==
    [][(/\ AtField(FieldRetry)
        /\ \E i \in 1..Len(SplitField(lines[li]).value) :
              ~IsDigit(SplitField(lines[li]).value[i]))
           => event' = event /\ ~err']_vars

\* the loop's state after j lines
After(j) == ProcessLines(LoopInit, SubSeq(lines, 1, j))

EmitsAt(j) == j >= 1 /\ Len(After(j).events) > Len(After(j - 1).events)

\* the loop has just appended an event, at line li - 1
JustEmitted == pc = "loop" /\ li > 1 /\ EmitsAt(li - 1)

\* the lines of the event just appended: those after the line of the previous one
BlockLines ==
    LET from == CHOOSE k \in 0..(li - 2) :
                    /\ k = 0 \/ EmitsAt(k)
                    /\ \A m \in (k + 1)..(li - 2) : ~EmitsAt(m)
    IN  (from + 1)..(li - 2)

IsIDLine(line) ==
    /\ Len(line) > 0
    /\ ~HasPrefix(line, <<Colon>>)
    /\ SplitField(line).field = FieldID

IDValue(line) == SplitField(line).value

NulIDLines == {m \in BlockLines : IsIDLine(lines[m]) /\ Contains(IDValue(lines[m]), NUL)}

GoodIDLines == {m \in BlockLines : IsIDLine(lines[m]) /\ ~Contains(IDValue(lines[m]), NUL)}

\* C7 as stated: an event with an id line holding a NUL is emitted with id "",
\* and nothing fails.
NulIDEmptyAsClaimed ==
    (JustEmitted /\ NulIDLines # {}) => events[Len(events)].ID = <<>> /\ ~err

\* C7, amended: an id line holding a NUL is ignored: the event it belongs to is
\* emitted with the id of its last id line without NUL, "" when it has none,
\* and nothing fails.
NulIDIgnored ==
    (JustEmitted /\ NulIDLines # {})
        => /\ ~err
           /\ events[Len(events)].ID =
                IF GoodIDLines = {} THEN <<>>
                ELSE IDValue(lines[CHOOSE m \in GoodIDLines :
                                      \A n \in GoodIDLines : n <= m])

NulIDIgnoredWitness ==
    /\ JustEmitted
    /\ NulIDLines # {} /\ GoodIDLines # {}
    /\ \E m \in NulIDLines : \A n \in GoodIDLines : n < m
    /\ events[Len(events)].ID = <<53>>

InsertAt(ps, k, line) == SubSeq(ps, 1, k) \o <<line>> \o SubSeq(ps, k + 1, Len(ps))

RemoveAt(ps, k) == SubSeq(ps, 1, k - 1) \o SubSeq(ps, k + 1, Len(ps))

\* an empty line put directly after each empty line in turn
BlankAfterBlank ==
    \A k \in 1..Len(Pieces) :
        Pieces[k] = <<>>
            => DecodeBytes(Join(InsertAt(Pieces, k, <<>>), <<LF>>)) = events

\* C8 as stated: an empty line put at the start of the input, or directly
\* after an empty line, changes nothing in the events decoded.
BlankLinesAsClaimed ==
    Decoded => DecodeBytes(<<LF>> \o input) = events /\ BlankAfterBlank

\* C8, amended: an empty line put at the start of the input, behind the BOM
\* when the input starts with one, or directly after an empty line, changes
\* nothing in the events decoded.
BlankLines ==
    Decoded => /\ DecodeBytes(IF HasPrefix(input, BOM)
                              THEN BOM \o <<LF>> \o TrimPrefix(input, BOM)
                              ELSE <<LF>> \o input) = events
               /\ BlankAfterBlank

BlankLinesWitness ==
    /\ Decoded
    /\ Len(Pieces) = 4
    /\ Pieces[1] = <<>> /\ Pieces[3] = <<>> /\ Pieces[4] = <<>>
    /\ Len(events) = 1

CommentLines == {<<Colon>>, <<Colon, 99>>, <<Colon, Space>> \o FieldData \o <<Colon, 120>>}

IsComment(line) == HasPrefix(line, <<Colon>>)

\* the events decoded from the lines ps are those decoded from the input
SameEvents(ps) == DecodeBytes(Join(ps, <<LF>>)) = events

\* C9 as stated: a comment line put in or taken out anywhere changes nothing
\* in the events decoded.
CommentsAsClaimed ==
    Decoded =>
        /\ \A k \in 0..Len(Pieces) : \A c \in CommentLines :
              SameEvents(InsertAt(Pieces, k, c))
        /\ \A k \in 1..Len(Pieces) :
              IsComment(Pieces[k]) => SameEvents(RemoveAt(Pieces, k))

\* C9, amended: a comment line put in or taken out anywhere changes nothing in
\* the events decoded, except in front of a BOM that starts the input (with
\* the comment line before it the BOM is not stripped).
Comments ==
    Decoded =>
        /\ \A k \in 0..Len(Pieces) : \A c \in CommentLines :
              (k = 0 /\ HasPrefix(input, BOM))
                  \/ SameEvents(InsertAt(Pieces, k, c))
        /\ \A k \in 1..Len(Pieces) :
              IsComment(Pieces[k])
                  => \/ k = 1 /\ HasPrefix(Join(RemoveAt(Pieces, k), <<LF>>), BOM)
                     \/ SameEvents(RemoveAt(Pieces, k))

CommentsWitness ==
    /\ Decoded
    /\ Len(Pieces) = 4
    /\ ~IsComment(Pieces[1]) /\ Len(Pieces[1]) > 0
    /\ IsComment(Pieces[2])
    /\ ~IsComment(Pieces[3]) /\ Len(Pieces[3]) > 0
    /\ Len(events) = 1
    /\ events[1].Event # Message
    /\ ~events[1].Data.isNil

NamesNonEmpty == \A i \in 1..Len(events) : events[i].Event # <<>>

\* C10: every event in the list has a non-empty event name: an event completed
\* with an empty name is appended with the name "message", any other with its
\* name as it is.
DefaultEventType ==
    /\ []NamesNonEmpty
    /\ [][Emits => events'[Len(events')].Event =
                       IF event.Event = <<>> THEN Message ELSE event.Event]_vars

DefaultEventTypeWitness ==
    /\ Decoded
    /\ Len(Pieces) = 4
    /\ Pieces[1] = FieldEvent \o <<Colon, Space, 116>>
    /\ Pieces[2] = FieldEvent
    /\ Len(events) = 1
    /\ events[1].Event = Message

(***************************************************************************)
(* Errors.                                                                 *)
(***************************************************************************)
\* C11: SSEventDecode returns an error exactly when reading the source fails,
\* then with no events and without parsing anything; once the bytes are read
\* it returns nil whatever they hold.
ErrorOnlyFromRead ==
    /\ [](pc \in {"split", "loop"} => ~err)
    /\ [](pc = "done" /\ err => events = <<>> /\ lines = <<>> /\ li = 0)
    /\ [][/\ (pc = "read" /\ err') => pc' = "done"
          /\ (pc = "read" /\ ~err') => pc' = "split" /\ raw' = input
          /\ pc # "read" => err' = err]_vars

ErrorOnlyFromReadWitness ==
    /\ pc = "done" /\ err
    /\ input = FieldData \o <<Colon, Space, 120, LF, LF>>
    /\ events = <<>>

\* C12: when a write to the sink fails during SSEventEncode, the call returns
\* an error and attempts no other write on the sink after the failed one.
WriteFailureAborts ==
    (Len(calls) > 0 /\ sink.failed) => calls[Len(calls)].err /\ ~sink.late

\* the failed write is the Flush within the unchecked write of "\n\n"
WriteFailureAbortsWitness ==
    /\ Len(calls) = 1
    /\ calls[1].event = SSEvent(<<>>, NewReader(<<>>), <<>>, 0)
    /\ calls[1].err
    /\ sink.failed /\ ~sink.late
    /\ sink.bytes = <<>>

(***************************************************************************)
(* The byte order mark.                                                    *)
(***************************************************************************)
\* the lines of s as it stands: line endings made LF, nothing stripped
PlainLines(s) ==
    Split(ReplaceAll(ReplaceAll(s, <<CR, LF>>, <<LF>>), <<CR>>, <<LF>>), LF)

ParsePlain(s) == ProcessLines(LoopInit, PlainLines(s)).events

HasBOM(line) == \E i \in 1..Len(line) : HasPrefix(SubSeq(line, i, Len(line)), BOM)

\* C13: the BOM is stripped at the very start, once, before anything else:
\* decoding BOM followed by s gives what parsing s as it stands gives, and a
\* BOM anywhere else stays in its line.
BOMOnce ==
    Decoded =>
        /\ DecodeBytes(BOM \o input) = ParsePlain(input)
        /\ events = ParsePlain(TrimPrefix(input, BOM))
        /\ lines = PlainLines(TrimPrefix(input, BOM))
        /\ \A i \in 2..Len(Pieces) : lines[i] = Pieces[i]

\* the input starts with a BOM and has another on a later line; with one
\* more BOM in front, its first line keeps its own
BOMOnceWitness ==
    /\ Decoded
    /\ Len(Pieces) = 4
    /\ HasPrefix(input, BOM)
    /\ ~HasBOM(lines[1]) /\ HasBOM(lines[3])
    /\ Pieces[2] = FieldData \o <<Colon, Space, 120>>
    /\ Len(events) = 1
    /\ events[1].Data.bytes = <<120, LF, 120>>
    /\ DecodeBytes(BOM \o input)[1].Data.bytes = <<120>>

(***************************************************************************)
(* Field lines.                                                            *)
(***************************************************************************)
\* the loop is at a line that is neither empty nor a comment
AtFieldLine ==
    /\ pc = "loop" /\ li <= Len(lines)
    /\ Len(lines[li]) > 0
    /\ lines[li][1] # Colon

Colons(line) == {i \in 1..Len(line) : line[i] = Colon}

\* what is before the first colon, the whole line when it has none
NameOf(line) ==
    IF Colons(line) = {} THEN line
    ELSE SubSeq(line, 1, (CHOOSE i \in Colons(line) : \A j \in Colons(line) : i <= j) - 1)

\* what is after the first colon, less one space at its start
ValueOf(line) ==
    IF Colons(line) = {} THEN <<>>
    ELSE LET c == CHOOSE i \in Colons(line) : \A j \in Colons(line) : i <= j
             rest == SubSeq(line, c + 1, Len(line))
         IN  IF rest # <<>> /\ rest[1] = Space THEN SubSeq(rest, 2, Len(rest)) ELSE rest

FieldNames == {FieldEvent, FieldID, FieldRetry, FieldData}

\* C14: a field line is cut at its first colon into name and value, a line
\* with no colon is a name with an empty value, and of the value only one
\* leading space is removed; the field is then applied with that value.
FieldSplit ==
    [][AtFieldLine =>
        LET name == NameOf(lines[li])
            value == ValueOf(lines[li])
        IN  /\ name = FieldData =>
                dataLines' = Append(dataLines, value) /\ event' = event
            /\ name = FieldEvent =>
                event' = [event EXCEPT !.Event = value] /\ dataLines' = dataLines
            /\ (name = FieldID /\ \A i \in 1..Len(value) : value[i] # NUL) =>
                event' = [event EXCEPT !.ID = value] /\ dataLines' = dataLines
            /\ name \notin FieldNames => event' = event /\ dataLines' = dataLines
            /\ events' = events]_vars

\* "data:  y:z " has given the value " y:z ", "event" an empty name
FieldSplitWitness ==
    /\ pc = "loop" /\ li = 4
    /\ lines[1] = FieldEvent \o <<Colon, Space, 116>>
    /\ lines[2] = FieldEvent
    /\ lines[3] = FieldData \o <<Colon, Space, Space, 121, Colon, 122, Space>>
    /\ event.Event = <<>>
    /\ dataLines = << <<Space, 121, Colon, 122, Space>> >>

(***************************************************************************)
(* Events and empty lines.                                                 *)
(***************************************************************************)
EmptyLines == {i \in 1..Len(lines) : lines[i] = <<>>}

\* the last empty line, 0 when there is none
LastEmpty ==
    IF EmptyLines = {} THEN 0
    ELSE CHOOSE i \in EmptyLines : \A j \in EmptyLines : j <= i

\* C15: an event is emitted only at an empty line, so there are never more
\* events than empty lines, and what the lines after the last empty line have
\* set is dropped at the end of the input.
EmitOnlyAtBlank ==
    /\ [][Emits => li <= Len(lines) /\ lines[li] = <<>>]_vars
    /\ [](pc \in {"loop", "done"} => Len(events) <= Cardinality(EmptyLines))
    /\ [](Decoded => events = After(LastEmpty).events)

\* "data: x", empty line, "data: x" and no line terminator: one event, and
\* the second block is still in the accumulator when the function returns
EmitOnlyAtBlankWitness ==
    /\ Decoded
    /\ Len(lines) = 3
    /\ lines[2] = <<>> /\ lines[3] # <<>>
    /\ Len(events) = 1
    /\ dataLines = << <<120>> >>

\* the loop is at an empty line that completes nothing
AtSkippedBlank ==
    /\ pc = "loop" /\ li <= Len(lines)
    /\ lines[li] = <<>>
    /\ dataLines = <<>> /\ event.Event = <<>>

\* C16: an empty line met with no data line and no event name changes
\* nothing: the id and the retry set before it are still there and are in
\* the next event emitted.
SkippedBlankKeeps ==
    /\ [][AtSkippedBlank => UNCHANGED <<event, dataLines, events>>]_vars
    /\ []((/\ Decoded
           /\ lines = <<FieldID \o <<Colon, Space, 53>>, <<>>,
                        FieldData \o <<Colon, Space, 120>>, <<>> >>)
              => events = <<SSEvent(Message, NewReader(<<120>>), <<53>>, 0)>>)

\* "id: 5", empty line, "data: x", empty line: one event, with the id
SkippedBlankKeepsWitness ==
    /\ Decoded
    /\ lines = <<FieldID \o <<Colon, Space, 53>>, <<>>,
                 FieldData \o <<Colon, Space, 120>>, <<>> >>
    /\ Len(events) = 1
    /\ events[1].ID = <<53>>

\* the line of the event emitted before the one just emitted, 0 for the first
PrevEmit ==
    CHOOSE k \in 0..(li - 2) :
        /\ k = 0 \/ EmitsAt(k)
        /\ \A m \in (k + 1)..(li - 2) : ~EmitsAt(m)

\* C17: emitting an event resets the in-progress event and the data lines,
\* so an emitted event is what the lines after the previous emitting empty
\* line give on their own.
EmitResets ==
    JustEmitted =>
        /\ event = ZeroEvent
        /\ dataLines = <<>>
        /\ <<events[Len(events)]>> =
               ProcessLines(LoopInit, SubSeq(lines, PrevEmit + 1, li - 1)).events

\* "event: t", empty line, "data: x", empty line: the second event has the
\* default name and the first has no payload
EmitResetsWitness ==
    /\ JustEmitted
    /\ Len(events) = 2
    /\ events[1].Event = <<116>> /\ events[1].Data = NilReader
    /\ events[2].Event = Message /\ events[2].Data = NewReader(<<120>>)

(***************************************************************************)
(* Field names.                                                            *)
(***************************************************************************)
\* a field line whose name is none of the four
IsOther(line) ==
    /\ Len(line) > 0
    /\ line[1] # Colon
    /\ NameOf(line) \notin FieldNames

\* "foo: 1", "Data: x", " data: x", "data : x", "datax", BOM "data: x"
OtherLines ==
    { <<102, 111, 111, Colon, Space, 49>>,
      <<68, 97, 116, 97, Colon, Space, 120>>,
      <<Space>> \o FieldData \o <<Colon, Space, 120>>,
      FieldData \o <<Space, Colon, Space, 120>>,
      FieldData \o <<120>>,
      BOM \o FieldData \o <<Colon, Space, 120>> }

\* an event line put directly before each event line in turn
EventBeforeEvent ==
    \A k \in 1..Len(Pieces) : \A v \in {<<>>, <<Colon, Space, 117>>} :
        (Len(Pieces[k]) > 0 /\ NameOf(Pieces[k]) = FieldEvent)
            => SameEvents(InsertAt(Pieces, k - 1, FieldEvent \o v))

\* C18 as stated: a line whose field name is not exactly event, id, retry or
\* data, put in or taken out anywhere, changes nothing in the events decoded,
\* and of the event lines before a boundary the last one gives the name.
FieldNamesExactAsClaimed ==
    Decoded =>
        /\ \A k \in 0..Len(Pieces) : \A u \in OtherLines :
              SameEvents(InsertAt(Pieces, k, u))
        /\ \A k \in 1..Len(Pieces) :
              IsOther(Pieces[k]) => SameEvents(RemoveAt(Pieces, k))
        /\ EventBeforeEvent

\* C18, amended: a line whose field name is not exactly event, id, retry or
\* data, put in or taken out anywhere, changes nothing in the events decoded,
\* except at the very start of an input when the line or the input after it
\* starts with a BOM (the BOM is stripped from the first line only); and of
\* the event lines before a boundary the last one gives the name.
FieldNamesExact ==
    Decoded =>
        /\ \A k \in 0..Len(Pieces) : \A u \in OtherLines :
              \/ k = 0 /\ (HasPrefix(input, BOM) \/ HasPrefix(u, BOM))
              \/ SameEvents(InsertAt(Pieces, k, u))
        /\ \A k \in 1..Len(Pieces) :
              IsOther(Pieces[k])
                  => \/ /\ k = 1
                        /\ \/ HasPrefix(Pieces[1], BOM)
                           \/ HasPrefix(Join(RemoveAt(Pieces, k), <<LF>>), BOM)
                     \/ SameEvents(RemoveAt(Pieces, k))
        /\ EventBeforeEvent

\* "event: t", "data: x", BOM "data: x", empty line: the third line has
\* another field name, and the event has the payload of the second alone
FieldNamesExactWitness ==
    /\ Decoded
    /\ Len(Pieces) = 4
    /\ Pieces[1] = FieldEvent \o <<Colon, Space, 116>>
    /\ Pieces[2] = FieldData \o <<Colon, Space, 120>>
    /\ IsOther(Pieces[3])
    /\ events = <<SSEvent(<<116>>, NewReader(<<120>>), <<>>, 0)>>

====
